---- MODULE Spec2Model ----
(***************************************************************************)
(* Model of offset_tmp_subs.py: the offset parser (total_seconds), the     *)
(* per-line transformer (offset_line / offset_timestamp), the filtering    *)
(* generator (offset_subtitles) and the pipeline (main).                   *)
(*                                                                         *)
(* A Python str is a sequence of one-character strings.  A call that can   *)
(* raise returns a record [ok, val]: ok = FALSE stands for the exception.  *)
(***************************************************************************)
EXTENDS Integers, Sequences, FiniteSets, TLC

VARIABLES pc, nargs, offset_string, offset, input_file, in_exists,
          in_opened, out_exists, created, subtitle_file_lines, idx,
          output_file, yielded, error,
          line, seconds, fixed_line, back_line

vars == <<pc, nargs, offset_string, offset, input_file, in_exists,
          in_opened, out_exists, created, subtitle_file_lines, idx,
          output_file, yielded, error,
          line, seconds, fixed_line, back_line>>

mainVars == <<nargs, input_file, in_exists, in_opened, out_exists, created,
              subtitle_file_lines, idx, output_file, yielded, error>>

lineVars == <<line, seconds, fixed_line, back_line>>

----------------------------------------------------------------------------
(* Characters and the regular expressions of the source.                   *)

DigitChars == <<"0", "1", "2", "3", "4", "5", "6", "7", "8", "9">>

Digit == {DigitChars[i] : i \in 1..10}

Sign == {"-", "+"}

Colon == {":"}

Separator == {":", "="}

Alphabet == Digit \cup Sign \cup Separator \cup {" ", "a", "b", "c", "\n"}

\* '.' of a Python regex without DOTALL: any character but the newline
Dot == Alphabet \ {"\n"}

One(c) == [cls |-> c, lo |-> 1, hi |-> 1, star |-> FALSE]

Opt(c) == [cls |-> c, lo |-> 0, hi |-> 1, star |-> FALSE]

Plus(c) == [cls |-> c, lo |-> 1, hi |-> 1, star |-> TRUE]

Star(c) == [cls |-> c, lo |-> 0, hi |-> 0, star |-> TRUE]

\* (\d+:\d\d:\d\d)([:=])(.*)
SUBTITLE_LINE_PATTERN ==
    <<Plus(Digit), One(Colon), One(Digit), One(Digit), One(Colon),
      One(Digit), One(Digit), One(Separator), Star(Dot)>>

\* (\d+):(\d\d):(\d\d)
TIMESTAMP_PATTERN ==
    <<Plus(Digit), One(Colon), One(Digit), One(Digit), One(Colon),
      One(Digit), One(Digit)>>

\* [-+]?\d+
ONLY_SECONDS == <<Opt(Sign), Plus(Digit)>>

\* mutant: ([-+])?(\d+):(\d+), the widths of the fields not fixed
WITH_MINUTES_loose ==
    <<Opt(Sign), Plus(Digit), Plus(Digit), One(Colon), Plus(Digit), Plus(Digit)>>

\* ([-+])?(\d\d):(\d\d)
WITH_MINUTES ==
    <<Opt(Sign), One(Digit), One(Digit), One(Colon), One(Digit), One(Digit)>>

\* ([-+])?(\d+):(\d\d):(\d\d)
WITH_HOURS ==
    <<Opt(Sign), Plus(Digit), One(Colon), One(Digit), One(Digit),
      One(Colon), One(Digit), One(Digit)>>

\* the result of a failed match (None); a successful match is the sequence
\* of the positions following each token, all of them >= 1
NoMatch == <<0>>

Min(a, b) == IF a < b THEN a ELSE b

RECURSIVE Run(_, _, _)
\* number of consecutive characters of s from pos on that are in cls
Run(cls, s, pos) ==
    IF pos > Len(s) \/ s[pos] \notin cls THEN 0
    ELSE 1 + Run(cls, s, pos + 1)

RECURSIVE MatchAt(_, _, _, _, _), Try(_, _, _, _, _, _)
\* backtracking matcher: token k of pat at position pos of s, greedy
MatchAt(pat, k, s, pos, full) ==
    IF k > Len(pat)
    THEN IF full /\ pos # Len(s) + 1 THEN NoMatch ELSE <<>>
    ELSE LET t == pat[k]
             avail == Run(t.cls, s, pos)
             top == IF t.star THEN avail ELSE Min(avail, t.hi)
         IN  Try(pat, k, s, pos, top, full)

Try(pat, k, s, pos, n, full) ==
    IF n < pat[k].lo THEN NoMatch
    ELSE LET r == MatchAt(pat, k + 1, s, pos + n, full)
         IN  IF r # NoMatch THEN <<pos + n>> \o r
             ELSE Try(pat, k, s, pos, n - 1, full)

\* re.Pattern.fullmatch: the whole string must match
fullmatch(pat, s) == MatchAt(pat, 1, s, 1, TRUE)

\* re.Pattern.match: a prefix of the string must match
match(pat, s) == MatchAt(pat, 1, s, 1, FALSE)

\* text of the group made of tokens a..b of a successful match m
\* (a group that did not take part, None, is the empty text: the source only
\* compares it with '-')
Group(s, m, a, b) ==
    SubSeq(s, IF a = 1 THEN 1 ELSE m[a - 1], m[b] - 1)

----------------------------------------------------------------------------
(* int() and the format specification 02d.                                 *)

DigitVal(c) == (CHOOSE i \in 1..10 : DigitChars[i] = c) - 1

RECURSIVE IntOfDigits(_)
IntOfDigits(ds) ==
    IF ds = <<>> THEN 0
    ELSE IntOfDigits(SubSeq(ds, 1, Len(ds) - 1)) * 10 + DigitVal(ds[Len(ds)])

\* int(str) on an optionally signed run of decimal digits
int(s) ==
    IF s[1] = "-" THEN 0 - IntOfDigits(Tail(s))
    ELSE IF s[1] = "+" THEN IntOfDigits(Tail(s))
    ELSE IntOfDigits(s)

RECURSIVE Str(_)
\* decimal digits of n >= 0
Str(n) ==
    IF n < 10 THEN <<DigitChars[n + 1]>>
    ELSE Str(n \div 10) \o <<DigitChars[(n % 10) + 1]>>

\* mutant: f'{n:d}', no padding
Format02d_nopad(n) ==
    IF n < 0 THEN <<"-">> \o Str(0 - n) ELSE Str(n)

\* f'{n:02d}': zero-padded to a width of 2, the width counting the sign
Format02d(n) ==
    IF n < 0 THEN <<"-">> \o Str(0 - n)
    ELSE IF n < 10 THEN <<"0">> \o Str(n)
    ELSE Str(n)

----------------------------------------------------------------------------
(* total_seconds                                                           *)

Return(v) == [ok |-> TRUE, val |-> v]

Raise == [ok |-> FALSE, val |-> 0]

\* mutant: the sign of a MM:SS or H:MM:SS offset is dropped
total_seconds_nosign(s) ==
    LET m1 == fullmatch(ONLY_SECONDS, s)
        m2 == fullmatch(WITH_MINUTES, s)
        m3 == fullmatch(WITH_HOURS, s)
    IN  IF m1 # NoMatch THEN Return(int(s))
        ELSE IF m2 # NoMatch
        THEN Return(int(Group(s, m2, 2, 3)) * 60 + int(Group(s, m2, 5, 6)))
        ELSE IF m3 # NoMatch
        THEN Return(int(Group(s, m3, 2, 2)) * 3600
                    + int(Group(s, m3, 4, 5)) * 60 + int(Group(s, m3, 7, 8)))
        ELSE Raise

\* mutant: an offset of no grammar counts as 0 instead of raising
total_seconds_lenient(s) ==
    LET m1 == fullmatch(ONLY_SECONDS, s)
        m2 == fullmatch(WITH_MINUTES, s)
        m3 == fullmatch(WITH_HOURS, s)
    IN  IF m1 # NoMatch THEN Return(int(s))
        ELSE IF m2 # NoMatch
        THEN LET sign == IF Group(s, m2, 1, 1) = <<"-">> THEN 0 - 1 ELSE 1
             IN  Return((int(Group(s, m2, 2, 3)) * 60
                         + int(Group(s, m2, 5, 6))) * sign)
        ELSE IF m3 # NoMatch
        THEN LET sign == IF Group(s, m3, 1, 1) = <<"-">> THEN 0 - 1 ELSE 1
             IN  Return((int(Group(s, m3, 2, 2)) * 3600
                         + int(Group(s, m3, 4, 5)) * 60
                         + int(Group(s, m3, 7, 8))) * sign)
        ELSE Return(0)

total_seconds(s) ==
    LET m1 == fullmatch(ONLY_SECONDS, s)
        m2 == fullmatch(WITH_MINUTES, s)
        m3 == fullmatch(WITH_HOURS, s)
    IN  IF m1 # NoMatch THEN Return(int(s))
        ELSE IF m2 # NoMatch
        THEN LET sign == IF Group(s, m2, 1, 1) = <<"-">> THEN 0 - 1 ELSE 1
                 minutes == int(Group(s, m2, 2, 3))
                 secs == int(Group(s, m2, 5, 6))
             IN  Return((minutes * 60 + secs) * sign)
        ELSE IF m3 # NoMatch
        THEN LET sign == IF Group(s, m3, 1, 1) = <<"-">> THEN 0 - 1 ELSE 1
                 hours == int(Group(s, m3, 2, 2))
                 minutes == int(Group(s, m3, 4, 5))
                 secs == int(Group(s, m3, 7, 8))
             IN  Return((hours * 3600 + minutes * 60 + secs) * sign)
        ELSE Raise

----------------------------------------------------------------------------
(* offset_timestamp, offset_line                                           *)

\* mutant: the hour is flattened as 60 seconds
offset_timestamp_hour60(timestamp, secs) ==
    LET m == match(TIMESTAMP_PATTERN, timestamp)
        init_hour == int(Group(timestamp, m, 1, 1))
        init_min == int(Group(timestamp, m, 3, 4))
        init_sec == int(Group(timestamp, m, 6, 7))
        total == init_hour * 60 + init_min * 60 + init_sec + secs
        second == total % 60
        total_minutes == total \div 60
        minute == total_minutes % 60
        hour == total_minutes \div 60
    IN  Format02d(hour) \o <<":">> \o Format02d(minute) \o <<":">>
            \o Format02d(second)

offset_timestamp(timestamp, secs) ==
    LET m == match(TIMESTAMP_PATTERN, timestamp)
        init_hour == int(Group(timestamp, m, 1, 1))
        init_min == int(Group(timestamp, m, 3, 4))
        init_sec == int(Group(timestamp, m, 6, 7))
        total == init_hour * 60 * 60 + init_min * 60 + init_sec + secs
        second == total % 60
        total_minutes == total \div 60
        minute == total_minutes % 60
        hour == total_minutes \div 60
    IN  Format02d(hour) \o <<":">> \o Format02d(minute) \o <<":">>
            \o Format02d(second)

RaiseLine == [ok |-> FALSE, val |-> <<>>]

\* mutant: a line that does not match is returned as it is
offset_line_passthrough(l, secs) ==
    LET m == match(SUBTITLE_LINE_PATTERN, l)
    IN  IF m = NoMatch THEN [ok |-> TRUE, val |-> l]
        ELSE [ok |-> TRUE,
              val |-> offset_timestamp(Group(l, m, 1, 7), secs)
                          \o Group(l, m, 8, 8) \o Group(l, m, 9, 9)]

\* SUBTITLE_LINE_PATTERN.match(line) is None for a line that does not match,
\* and None.groups() raises
offset_line(l, secs) ==
    LET m == match(SUBTITLE_LINE_PATTERN, l)
    IN  IF m = NoMatch THEN RaiseLine
        ELSE LET timestamp == Group(l, m, 1, 7)
                 separator == Group(l, m, 8, 8)
                 content == Group(l, m, 9, 9)
                 fixed_timestamp == offset_timestamp(timestamp, secs)
             IN  [ok |-> TRUE, val |-> fixed_timestamp \o separator \o content]

\* mutant: no line is taken to be negative
startswith_minus_never(s) == FALSE

\* str.startswith('-')
startswith_minus(s) == Len(s) > 0 /\ s[1] = "-"
----------------------------------------------------------------------------
(* Inputs of the offset parser.                                            *)

MaxOffsetLen == 4

MaxHourDigits == 2

OffsetAlphabet == {"0", "1", "9", ":", "-", "+", " "}

FieldDigits == {"0", "5", "9"}

Texts(alpha, n) == [1..n -> alpha]

TextsUpTo(alpha, n) == UNION {Texts(alpha, k) : k \in 0..n}

SignTexts == {<<>>, <<"+">>, <<"-">>}

HourTexts == UNION {Texts(FieldDigits, k) : k \in 1..MaxHourDigits}

TwoDigitTexts == Texts(FieldDigits, 2)

Ones(n) == [i \in 1..n |-> "1"]

\* every text that differs from s by one deleted, replaced or inserted
\* character
Edits(s, alpha) ==
    {SubSeq(s, 1, i - 1) \o SubSeq(s, i + 1, Len(s)) : i \in 1..Len(s)}
    \cup {SubSeq(s, 1, i - 1) \o <<c>> \o SubSeq(s, i + 1, Len(s)) :
              i \in 1..Len(s), c \in alpha}
    \cup {SubSeq(s, 1, i) \o <<c>> \o SubSeq(s, i + 1, Len(s)) :
              i \in 0..Len(s), c \in alpha}

StructuredOffsets ==
    {sg \o d : sg \in SignTexts, d \in HourTexts}
    \cup {sg \o m \o <<":">> \o s : sg \in SignTexts, m \in TwoDigitTexts,
              s \in TwoDigitTexts}
    \cup {sg \o h \o <<":">> \o m \o <<":">> \o s :
              sg \in SignTexts, h \in HourTexts, m \in TwoDigitTexts,
              s \in TwoDigitTexts}

OffsetBases ==
    {sg \o Ones(2) \o <<":">> \o Ones(2) : sg \in SignTexts}
    \cup {sg \o Ones(k) \o <<":">> \o Ones(2) \o <<":">> \o Ones(2) :
              sg \in SignTexts, k \in 1..MaxHourDigits}

\* the arguments of the doctests of total_seconds
DocOffsets ==
    {<<"0", "2", ":", "1", "0", ":", "3", "9">>,
     <<"0", "1", ":", "1", "0">>,
     <<"1", "2", "0">>,
     <<"-", "0", "1", ":", "0", "2", ":", "0", "3">>,
     <<"+", "0", "3", ":", "5", "5">>}

OffsetInputs ==
    TextsUpTo(OffsetAlphabet, MaxOffsetLen)
    \cup DocOffsets
    \cup StructuredOffsets
    \cup UNION {Edits(b, OffsetAlphabet) : b \in OffsetBases}

----------------------------------------------------------------------------
(* The offset parser on its own: total_seconds applied to one argument.    *)

NoLine == [ok |-> FALSE, val |-> <<>>]

MainIdle ==
    /\ nargs = 3
    /\ input_file = <<>>
    /\ in_exists = TRUE
    /\ in_opened = FALSE
    /\ out_exists = FALSE
    /\ created = FALSE
    /\ subtitle_file_lines = <<>>
    /\ idx = 0
    /\ output_file = <<>>
    /\ yielded = <<>>
    /\ error = "none"

LineIdle ==
    /\ line = <<>>
    /\ seconds = 0
    /\ fixed_line = NoLine
    /\ back_line = NoLine

InitOffset ==
    /\ pc = "call"
    /\ offset_string \in OffsetInputs
    /\ offset = Raise
    /\ MainIdle
    /\ LineIdle

TotalSeconds ==
    /\ pc = "call"
    /\ offset' = total_seconds(offset_string)
    /\ pc' = "end"
    /\ UNCHANGED <<offset_string, mainVars, lineVars>>

NextOffset == TotalSeconds

SpecOffset == InitOffset /\ [][NextOffset]_vars

----------------------------------------------------------------------------
(* Reference reading of the three offset grammars, by position.            *)

RefDigit(c) ==
    CASE c = "0" -> 0 [] c = "1" -> 1 [] c = "2" -> 2 [] c = "3" -> 3
      [] c = "4" -> 4 [] c = "5" -> 5 [] c = "6" -> 6 [] c = "7" -> 7
      [] c = "8" -> 8 [] c = "9" -> 9

RECURSIVE Pow10(_)
Pow10(n) == IF n = 0 THEN 1 ELSE 10 * Pow10(n - 1)

RECURSIVE RefNum(_, _, _)
RefNum(b, i, j) ==
    IF i > j THEN 0 ELSE RefDigit(b[i]) * Pow10(j - i) + RefNum(b, i + 1, j)

AllDigits(b, i, j) == i <= j /\ \A k \in i..j : b[k] \in Digit

RefSigned(s) == s # <<>> /\ s[1] \in {"+", "-"}

RefBody(s) == IF RefSigned(s) THEN Tail(s) ELSE s

RefSign(s) == IF s # <<>> /\ s[1] = "-" THEN 0 - 1 ELSE 1

IsSecondsOnly(s) == AllDigits(RefBody(s), 1, Len(RefBody(s)))

IsMinSec(s) ==
    LET b == RefBody(s)
    IN  /\ Len(b) = 5
        /\ AllDigits(b, 1, 2)
        /\ b[3] = ":"
        /\ AllDigits(b, 4, 5)

IsHourMinSec(s) ==
    LET b == RefBody(s)
        n == Len(b)
    IN  /\ n >= 7
        /\ AllDigits(b, 1, n - 6)
        /\ b[n - 5] = ":"
        /\ AllDigits(b, n - 4, n - 3)
        /\ b[n - 2] = ":"
        /\ AllDigits(b, n - 1, n)

InGrammar(s) == IsSecondsOnly(s) \/ IsMinSec(s) \/ IsHourMinSec(s)

RefOffset(s) ==
    LET b == RefBody(s)
        n == Len(b)
    IN  IF IsSecondsOnly(s) THEN RefSign(s) * RefNum(b, 1, n)
        ELSE IF IsMinSec(s)
        THEN RefSign(s) * (RefNum(b, 1, 2) * 60 + RefNum(b, 4, 5))
        ELSE RefSign(s) * (RefNum(b, 1, n - 6) * 3600
                            + RefNum(b, n - 4, n - 3) * 60
                            + RefNum(b, n - 1, n))

\* C3: total_seconds returns the reference value for every string of the
\* three grammars (seconds only, MM:SS, H+:MM:SS), a missing sign or '+'
\* counting as positive and '-' as negative.
C3_ReferenceValue ==
    (pc = "end" /\ InGrammar(offset_string))
        => offset = Return(RefOffset(offset_string))

C3_Witness ==
    /\ pc = "end"
    /\ offset_string = <<"-", "0", "5", ":", "9", "9", ":", "5", "9">>
    /\ offset = Return(0 - (5 * 3600 + 99 * 60 + 59))

\* C4: total_seconds raises, and returns no integer, for every string that
\* matches none of the three grammars in its entirety.
C4_InvalidRaises ==
    (pc = "end" /\ ~InGrammar(offset_string)) => offset = Raise

C4_Witness ==
    /\ pc = "end"
    /\ offset_string = <<"1", ":", "1", "1">>
    /\ offset = Raise
----------------------------------------------------------------------------
(* Inputs of the line transformer.                                         *)

MaxLineHourDigits == 2

MaxUnits == 1

MaxLineLen == 2

HourDigits == {"0", "1", "9"}

LineHourTexts == UNION {Texts(HourDigits, k) : k \in 1..MaxLineHourDigits}

MinuteTexts == {<<"0", "0">>, <<"0", "1">>, <<"5", "9">>, <<"7", "5">>}

SecondTexts == {<<"0", "0">>, <<"0", "1">>, <<"5", "9">>, <<"9", "9">>}

\* separator and content; a line read from a file ends with a newline
TailTexts ==
    {<<":">>, <<"=", "a", ":", "=", "1">>, <<":", "a", "\n">>, <<"=", "\n">>}

LineAlphabet == {"0", "a", ":", "=", "-", " ", "\n"}

LineBases ==
    {<<"0", ":", "0", "0", ":", "0", "0", ":", "a">>,
     <<"0", "0", ":", "0", "0", ":", "0", "0", "=">>}

LineInputs ==
    {h \o <<":">> \o m \o <<":">> \o s \o t :
        h \in LineHourTexts, m \in MinuteTexts, s \in SecondTexts,
        t \in TailTexts}
    \cup UNION {Edits(b, LineAlphabet) : b \in LineBases}
    \cup TextsUpTo(LineAlphabet, MaxLineLen)

Units == (0 - MaxUnits)..MaxUnits

SecondsInputs == {k * u : k \in Units, u \in {1, 59, 60, 3599, 3600, 3661}}

----------------------------------------------------------------------------
(* The line transformer on its own: offset_line applied to one line, then  *)
(* applied to its result with the opposite offset.                         *)

InitLine ==
    /\ pc = "call"
    /\ line \in LineInputs
    /\ seconds \in SecondsInputs
    /\ fixed_line = NoLine
    /\ back_line = NoLine
    /\ offset_string = <<>>
    /\ offset = Raise
    /\ MainIdle

OffsetLine ==
    /\ pc = "call"
    /\ fixed_line' = offset_line(line, seconds)
    /\ pc' = "back"
    /\ UNCHANGED <<line, seconds, back_line, offset_string, offset, mainVars>>

OffsetBack ==
    /\ pc = "back"
    /\ fixed_line.ok
    /\ back_line' = offset_line(fixed_line.val, 0 - seconds)
    /\ pc' = "end"
    /\ UNCHANGED <<line, seconds, fixed_line, offset_string, offset, mainVars>>

NextLine == OffsetLine \/ OffsetBack

SpecLine == InitLine /\ [][NextLine]_vars

----------------------------------------------------------------------------
(* Reference reading of a subtitle line, by position.                      *)

\* position of the first colon of l, 0 when there is none
FirstColon(l) ==
    IF \E i \in 1..Len(l) : l[i] = ":"
    THEN CHOOSE i \in 1..Len(l) : l[i] = ":" /\ \A j \in 1..(i - 1) : l[j] # ":"
    ELSE 0

\* l begins with H+:MM:SS immediately followed by ':' or '='
BeginsWithTimestamp(l) ==
    LET p == FirstColon(l)
    IN  /\ p >= 2
        /\ Len(l) >= p + 6
        /\ AllDigits(l, 1, p - 1)
        /\ AllDigits(l, p + 1, p + 2)
        /\ l[p + 3] = ":"
        /\ AllDigits(l, p + 4, p + 5)
        /\ l[p + 6] \in {":", "="}

\* a line of a text file: no newline but, possibly, the terminating one
IsFileLine(l) == \A i \in 1..(Len(l) - 1) : l[i] # "\n"

WellFormed(l) == BeginsWithTimestamp(l) /\ IsFileLine(l)

RefHour(l) == RefNum(l, 1, FirstColon(l) - 1)

RefMinute(l) == RefNum(l, FirstColon(l) + 1, FirstColon(l) + 2)

RefSecond(l) == RefNum(l, FirstColon(l) + 4, FirstColon(l) + 5)

RefTotal(l) == RefHour(l) * 3600 + RefMinute(l) * 60 + RefSecond(l)

RefSeparator(l) == l[FirstColon(l) + 6]

\* the text after the separator, without the line terminator
RefContent(l) ==
    LET rest == SubSeq(l, FirstColon(l) + 7, Len(l))
    IN  IF rest # <<>> /\ rest[Len(rest)] = "\n"
        THEN SubSeq(rest, 1, Len(rest) - 1) ELSE rest

InRange(l) == RefMinute(l) <= 59 /\ RefSecond(l) <= 59

\* number of digits of the hour as the source renders it: at least two
RefHourWidth(h) == IF h < 100 THEN 2 ELSE IF h < 1000 THEN 3 ELSE 4

\* C2: for a well-formed line and an offset with total = h*3600 + m*60 + s
\* + o >= 0, offset_line returns the timestamp rendered from second = total
\* mod 60, minute = (total div 60) mod 60, hour = total div 3600 (minute and
\* second in [0,59], hour non-negative), then the same separator and content.
C2_TransformLine ==
    (pc # "call" /\ WellFormed(line) /\ RefTotal(line) + seconds >= 0)
        => LET total == RefTotal(line) + seconds
               r == fixed_line.val
           IN  /\ fixed_line.ok
               /\ WellFormed(r)
               /\ RefSecond(r) = total % 60
               /\ RefMinute(r) = (total \div 60) % 60
               /\ RefHour(r) = total \div 3600
               /\ InRange(r)
               /\ FirstColon(r) - 1 = RefHourWidth(total \div 3600)
               /\ RefSeparator(r) = RefSeparator(line)
               /\ RefContent(r) = RefContent(line)
               /\ r[Len(r)] # "\n"

C2_Witness ==
    /\ pc = "back"
    /\ line = <<"9", "9", ":", "5", "9", ":", "5", "9", "=", "a", ":", "=", "1">>
    /\ seconds = 1
    /\ fixed_line.val
         = <<"1", "0", "0", ":", "0", "0", ":", "0", "0", "=", "a", ":", "=", "1">>

\* C5 (as stated): offset_line(line, 0) = line for any well-formed line, the
\* hour having any number of digits.
C5_IdempotentAnyHour ==
    (pc # "call" /\ WellFormed(line) /\ seconds = 0)
        => (fixed_line.ok /\ fixed_line.val = line)

\* the hour of l is written as the source renders it: two digits, or more
\* without a leading zero
CanonicalHour(l) ==
    LET p == FirstColon(l)
    IN  p = 3 \/ (p > 3 /\ l[1] # "0")

\* C5 (amended): offset_line(line, 0) = line for any well-formed line that
\* has no line terminator, a canonically written hour and minute and second
\* in [0,59].
C5_IdempotentCanonical ==
    (/\ pc # "call"
     /\ WellFormed(line)
     /\ seconds = 0
     /\ CanonicalHour(line)
     /\ InRange(line)
     /\ line[Len(line)] # "\n")
        => (fixed_line.ok /\ fixed_line.val = line)

C5_Witness ==
    /\ pc = "back"
    /\ seconds = 0
    /\ line = <<"1", "9", ":", "5", "9", ":", "0", "1", "=", "a", ":", "=", "1">>
    /\ fixed_line.val = line

\* C6: for a valid timestamp T (minute and second in [0,59]) and an offset o
\* with T's total + o >= 0, offset_line with o and then with -o yields a line
\* whose timestamp equals T and whose separator and content are the
\* original ones.
C6_RoundTrip ==
    (/\ pc = "end"
     /\ WellFormed(line)
     /\ InRange(line)
     /\ RefTotal(line) + seconds >= 0)
        => LET b == back_line.val
           IN  /\ back_line.ok
               /\ WellFormed(b)
               /\ RefHour(b) = RefHour(line)
               /\ RefMinute(b) = RefMinute(line)
               /\ RefSecond(b) = RefSecond(line)
               /\ RefSeparator(b) = RefSeparator(line)
               /\ RefContent(b) = RefContent(line)

C6_Witness ==
    /\ pc = "end"
    /\ line = <<"1", ":", "0", "0", ":", "0", "0", ":", "a", "\n">>
    /\ seconds = 0 - 3599
    /\ fixed_line.val = <<"0", "0", ":", "0", "0", ":", "0", "1", ":", "a">>
    /\ back_line.val = <<"0", "1", ":", "0", "0", ":", "0", "0", ":", "a">>

\* C9 (as stated): a line whose minute or second field is outside [0,59] is
\* an error of offset_line.
C9_OutOfRangeRaises ==
    (pc # "call" /\ BeginsWithTimestamp(line) /\ ~InRange(line))
        => ~fixed_line.ok

\* C9 (amended): a line whose minute or second field is outside [0,59] is
\* accepted by offset_line: it is flattened as h*3600 + m*60 + s like any
\* other line, and when the new total is >= 0 the result is the normalised
\* timestamp of that total, minute and second in [0,59].
C9_OutOfRangeAccepted ==
    (pc # "call" /\ WellFormed(line) /\ ~InRange(line))
        => /\ fixed_line.ok
           /\ RefTotal(line) + seconds >= 0
                => /\ WellFormed(fixed_line.val)
                   /\ InRange(fixed_line.val)
                   /\ RefTotal(fixed_line.val) = RefTotal(line) + seconds

C9_Witness ==
    /\ pc = "back"
    /\ line = <<"0", "0", ":", "7", "5", ":", "9", "9", ":">>
    /\ seconds = 0
    /\ fixed_line.val = <<"0", "1", ":", "1", "6", ":", "3", "9", ":">>
----------------------------------------------------------------------------
(* Inputs of the pipeline.                                                 *)

MaxLines == 2

MainOffsets ==
    {<<"5">>, <<"0">>, <<"-", "2", "0">>, <<"-", "0", "1", ":", "0", "0">>,
     <<"+", "1", ":", "0", "0", ":", "0", "0">>,
     <<>>, <<"1", ":", "1", "0">>, <<"5", " ">>}

FileLines ==
    {<<"0", "0", ":", "0", "0", ":", "1", "0", "=", "a", "\n">>,
     <<"0", "0", ":", "0", "0", ":", "3", "0", "=", "b", ":", "\n">>,
     <<"0", ":", "5", "9", ":", "5", "9", ":", "c">>,
     <<"0", "0", ":", "7", "5", ":", "0", "0", ":", "\n">>,
     <<"\n">>,
     <<"0", "0", ":", "0", "0", ":", "1", "0", "a", "\n">>,
     <<"-", "1", ":", "0", "0", ":", "0", "0", ":", "a", "\n">>}

Files == TextsUpTo(FileLines, MaxLines)

----------------------------------------------------------------------------
(* main and the generator offset_subtitles.                                *)

Init ==
    /\ pc = "args"
    /\ nargs \in {2, 3}
    /\ offset_string \in MainOffsets
    /\ offset = Raise
    /\ input_file \in Files
    /\ in_exists \in BOOLEAN
    /\ in_opened = FALSE
    /\ out_exists \in BOOLEAN
    /\ created = FALSE
    /\ subtitle_file_lines = <<>>
    /\ idx = 0
    /\ output_file = <<>>
    /\ yielded = <<>>
    /\ error = "none"
    /\ LineIdle

\* if len(args) != 3: ... exit(1)
CheckArgs ==
    /\ pc = "args"
    /\ IF nargs # 3
       THEN pc' = "exit" /\ error' = "exit1"
       ELSE pc' = "parse" /\ error' = error
    /\ UNCHANGED <<nargs, offset_string, offset, input_file, in_exists,
                   in_opened, out_exists, created, subtitle_file_lines, idx,
                   output_file, yielded, lineVars>>

\* offset = total_seconds(offset_string)
ParseOffset ==
    /\ pc = "parse"
    /\ LET r == total_seconds(offset_string)
       IN  IF r.ok
           THEN offset' = r /\ pc' = "read" /\ error' = error
           ELSE offset' = offset /\ pc' = "error" /\ error' = "ValueError"
    /\ UNCHANGED <<nargs, offset_string, input_file, in_exists, in_opened,
                   out_exists, created, subtitle_file_lines, idx,
                   output_file, yielded, lineVars>>

\* with open(subtitle_fname) as subtitle_file: list(subtitle_file)
ReadInput ==
    /\ pc = "read"
    /\ IF in_exists
       THEN /\ in_opened' = TRUE
            /\ subtitle_file_lines' = input_file
            /\ pc' = "open"
            /\ error' = error
       ELSE /\ in_opened' = in_opened
            /\ subtitle_file_lines' = subtitle_file_lines
            /\ pc' = "error"
            /\ error' = "FileNotFoundError"
    /\ UNCHANGED <<nargs, offset_string, offset, input_file, in_exists,
                   out_exists, created, idx, output_file, yielded, lineVars>>

\* with open(output_fname, 'x') as output_file
OpenOutput ==
    /\ pc = "open"
    /\ IF out_exists
       THEN /\ created' = created
            /\ out_exists' = out_exists
            /\ pc' = "error"
            /\ error' = "FileExistsError"
       ELSE /\ created' = TRUE
            /\ out_exists' = TRUE
            /\ pc' = "loop"
            /\ error' = error
    /\ UNCHANGED <<nargs, offset_string, offset, input_file, in_exists,
                   in_opened, subtitle_file_lines, idx, output_file, yielded,
                   lineVars>>

\* mutant: print(line, end='', file=output_file)
print_line_raw(file, l) == Append(file, l)

\* print(line, file=output_file)
print_line(file, l) == Append(file, l \o <<"\n">>)

\* one turn of the loop of offset_subtitles, and of the loop of main when
\* the generator yields
Iterate ==
    /\ pc = "loop"
    /\ idx < Len(subtitle_file_lines)
    /\ LET l == subtitle_file_lines[idx + 1]
           r == offset_line(l, offset.val)
       IN  /\ idx' = idx + 1
           /\ line' = l
           /\ fixed_line' = r
           /\ IF ~r.ok
              THEN /\ pc' = "error"
                   /\ error' = "AttributeError"
                   /\ UNCHANGED <<yielded, output_file>>
              ELSE IF startswith_minus(r.val)
              THEN UNCHANGED <<pc, error, yielded, output_file>>
              ELSE /\ yielded' = Append(yielded, r.val)
                   /\ output_file' = print_line(output_file, r.val)
                   /\ UNCHANGED <<pc, error>>
    /\ UNCHANGED <<nargs, offset_string, offset, input_file, in_exists,
                   in_opened, out_exists, created, subtitle_file_lines,
                   seconds, back_line>>

\* the generator is exhausted: the loop and the with block end
Finish ==
    /\ pc = "loop"
    /\ idx = Len(subtitle_file_lines)
    /\ pc' = "done"
    /\ UNCHANGED <<offset_string, offset, mainVars, lineVars>>

Next ==
    \/ CheckArgs
    \/ ParseOffset
    \/ ReadInput
    \/ OpenOutput
    \/ Iterate
    \/ Finish

Spec == Init /\ [][Next]_vars

----------------------------------------------------------------------------
(* Claims about the pipeline.                                              *)

RECURSIVE RefSelect(_, _)
\* the transformed forms of the lines of ls whose new total is >= 0
RefSelect(ls, o) ==
    IF ls = <<>> THEN <<>>
    ELSE (IF RefTotal(Head(ls)) + o >= 0
          THEN <<offset_line(Head(ls), o).val>> ELSE <<>>)
         \o RefSelect(Tail(ls), o)

Malformed(ls) == {k \in 1..Len(ls) : ~BeginsWithTimestamp(ls[k])}

FirstMalformed(ls) ==
    CHOOSE k \in Malformed(ls) : \A j \in Malformed(ls) : k <= j

WithNewlines(ls) == [k \in 1..Len(ls) |-> ls[k] \o <<"\n">>]

\* C1: over well-formed lines offset_subtitles yields exactly the
\* transformed forms of the lines whose flattened total plus the offset is
\* >= 0, in input order, none added, duplicated or reordered: a line is
\* omitted iff its new total is < 0.
C1_YieldsNonNegative ==
    (pc \in {"loop", "done"}
        /\ \A k \in 1..idx : BeginsWithTimestamp(subtitle_file_lines[k]))
        => /\ yielded = RefSelect(SubSeq(subtitle_file_lines, 1, idx),
                                  offset.val)
           /\ pc = "done" => idx = Len(subtitle_file_lines)

C1_Witness ==
    /\ pc = "done"
    /\ offset.val = 0 - 20
    /\ subtitle_file_lines
         = << <<"0", "0", ":", "0", "0", ":", "1", "0", "=", "a", "\n">>,
              <<"0", "0", ":", "0", "0", ":", "3", "0", "=", "b", ":", "\n">> >>
    /\ yielded = << <<"0", "0", ":", "0", "0", ":", "1", "0", "=", "b", ":">> >>

\* C7: a line that does not begin with H+:MM:SS followed by ':' or '=' makes
\* offset_line raise, and offset_subtitles propagates the error: the line is
\* neither yielded nor written nor skipped.
C7_MalformedRaises ==
    [][(pc = "loop" /\ idx < Len(subtitle_file_lines)
            /\ ~BeginsWithTimestamp(subtitle_file_lines[idx + 1]))
        => (/\ pc' = "error"
            /\ error' = "AttributeError"
            /\ fixed_line' = RaiseLine
            /\ yielded' = yielded
            /\ output_file' = output_file)]_vars

C7_Witness ==
    /\ pc = "error"
    /\ error = "AttributeError"
    /\ idx = 2
    /\ line = <<"0", "0", ":", "0", "0", ":", "1", "0", "a", "\n">>
    /\ Len(yielded) = 1

\* C8: when OFFSET matches none of the three grammars the run ends with the
\* offset error before the input file is opened and before the output file
\* is created: no output file created, no line written.
C8_InvalidOffsetNoOutput ==
    /\ (pc = "error" /\ error = "ValueError")
          => (~in_opened /\ ~created /\ output_file = <<>>)
    /\ (nargs = 3 /\ ~InGrammar(offset_string))
          => (/\ pc \in {"args", "parse", "error"}
              /\ ~in_opened
              /\ ~created
              /\ output_file = <<>>
              /\ pc = "error" => error = "ValueError")

C8_Witness ==
    /\ pc = "error"
    /\ error = "ValueError"
    /\ offset_string = <<"1", ":", "1", "0">>
    /\ input_file # <<>>
    /\ ~created

\* C10: with a valid offset, a readable input and a new output path, if
\* line k is the first malformed line the run ends with an error after the
\* output file was created, the file holding exactly the newline-terminated
\* transformed lines of non-negative new total among lines 1..k-1, in order;
\* with no malformed line the run ends normally with that selection over all
\* lines.
C10_TruncatedOutput ==
    /\ (pc = "error" /\ error = "AttributeError")
          => /\ created
             /\ Malformed(input_file) # {}
             /\ idx = FirstMalformed(input_file)
             /\ output_file
                  = WithNewlines(RefSelect(SubSeq(input_file, 1, idx - 1),
                                           offset.val))
    /\ pc = "done"
          => /\ created
             /\ Malformed(input_file) = {}
             /\ output_file = WithNewlines(RefSelect(input_file, offset.val))
    /\ (pc = "error" /\ created) => error = "AttributeError"

C10_Witness ==
    /\ pc = "error"
    /\ error = "AttributeError"
    /\ offset.val = 5
    /\ idx = 2
    /\ input_file[2] = <<"\n">>
    /\ output_file
         = << <<"0", "0", ":", "0", "0", ":", "1", "5", "=", "a", "\n">> >>

====
